---- MODULE Spec2Model ----
(***************************************************************************)
(* A model of the Form 20 extraction pipeline's orchestration layer:       *)
(*   - the document registry (tracking/extraction_progress.json) and the   *)
(*     three programs that write it: scripts/main_extractor.py,            *)
(*     scripts/manual_verifier.py and scripts/progress_manager.py;         *)
(*   - the batch tracking file of batch_process_all_pdfs.py;               *)
(*   - the rate limiter and the retry loop of the Gemini page extractors.  *)
(*                                                                         *)
(* Scores are percentages (0.85 is 85).  Timestamps, notes, record counts, *)
(* districts and file paths are left out: no operation reads them to       *)
(* decide a status.                                                        *)
(***************************************************************************)
EXTENDS Integers, Sequences, FiniteSets, TLC

\* ------------------------------------------------------------------ bounds
NumDocs == 2
\* Documents in the registry.
MaxRetriesCfg == 2
\* config["max_retries"] ranges over 0..MaxRetriesCfg.
MaxInterval == 2
\* config["checkpoint_interval"] ranges over 1..MaxInterval.
MaxErrors == 2
\* Entries a document's errors list may hold.
MaxRuns == 2
\* Orchestrator runs started in one behaviour.
MaxReviews == 2
\* Reviewer and progress manager commands in one behaviour.
MaxAC == 3
\* END_AC of the batch processor, scaled down from 288.
MaxBatchRuns == 2
\* Batch runs started in one behaviour.
MaxListLen == 2
\* Entries the batch tracking's failed list may hold.
MaxDelayed == 3
\* Calls that may sleep in wait_for_rate_limit in one behaviour.
MaxRetriesArg == 3
\* The max_retries argument ranges over 0..MaxRetriesArg.
NumPages == 3
\* len(pages_to_process) of the document whose pages are merged.
NumFiles == 10
\* PDF files find_all_pdfs returns to the consolidated extractor.
MaxAlready == 2
\* Leading files a loaded progress may list as already processed.
NumJson == 2
\* JSON files run_quality_assessment finds in parsedData.

\* ------------------------------------------------------- program constants
QualityThreshold == 85
DefaultMinConfidence == 95
NoDoc == 0
NoScore == -1
START_AC == 1
Window == 600
MinFileSize == 600
SaveEvery == 10

Docs == 1..NumDocs
\* A --from-pdf identifier that is not a key of progress["pdfs"].
UnknownDoc == NumDocs + 1
Procs == {1, 2}
Scores == {50, 95}

VARIABLES
    disk,         \* tracking/extraction_progress.json: doc -> record
    cfg,          \* config/extraction_config.json
    pc,           \* per orchestrator process: where run_extraction stands
    mem,          \* per orchestrator process: self.progress["pdfs"]
    cur,          \* per orchestrator process: current_pdf
    batch_count,  \* per orchestrator process: batch_count
    unsaved,      \* history: docs whose outcome this process has not yet saved
    allDone,      \* history: the registry this run loaded was all completed
    runs,         \* history: orchestrator runs started so far
    reviews       \* history: reviewer / progress manager commands run so far

regVars == <<disk, cfg, pc, mem, cur, batch_count, unsaved, allDone, runs, reviews>>

VARIABLES
    tfile,        \* batch_processing_tracking.json
    tdata,        \* batch_process_all_pdfs: tracking_data of the running process
    bpc,          \* batch_process_all_pdfs: where main stands
    ac,           \* batch_process_all_pdfs: the loop's ac_number
    bruns         \* history: batch runs started so far

batchVars == <<tfile, tdata, bpc, ac, bruns>>

VARIABLES
    variant,        \* which extractor module: "optimized" or "ultrafast"
    clock,          \* time.time(), in tenths of a second
    api_call_times, \* the module's api_call_times list
    issued,         \* history: when the calls of the last 60 s were issued
    delayed,        \* history: calls that slept in wait_for_rate_limit
    rpc,            \* extract_form20_with_gemini_vision_retry: idle, loop, done
    attempt,        \* its loop variable
    max_retries,    \* its argument
    calls,          \* history: backend calls it made
    result,         \* what it returned: "unset", "data" or "none"
    outcomes        \* history: what each attempt met

execVars == <<variant, clock, api_call_times, issued, delayed, rpc, attempt,
              max_retries, calls, result, outcomes>>

VARIABLES
    futures,         \* page number -> what the page's worker returns
    pending,         \* futures as_completed has not yet yielded
    page_results,    \* the page_results dict, as its items in insertion order
    pages_processed, \* pages_processed
    outfile,         \* parsedData/AC_<n>.json
    ret,             \* what the document function returned: unset, true, false
    mpc              \* the document function: idle, collecting, done

mergeVars == <<futures, pending, page_results, pages_processed, outfile, ret, mpc>>

VARIABLES
    regfile,   \* the bytes of the registry file, as a sequence of JSON tokens
    wreg,      \* the registry the writer holds in memory and dumps
    wprev,     \* history: what the file held when the current write began
    wpc        \* the writer: idle, writing, crashed, load_error

fileVars == <<regfile, wreg, wprev, wpc>>

VARIABLES
    cpc,          \* consolidated_extractor.process_all_pdfs: start, loop, done
    ci,           \* its loop index i
    already,      \* the files the loaded progress lists in processed_files
    cprogress,    \* self.progress: the counters
    cdisk,        \* extraction_progress.json of the consolidated extractor
    writeFailed,  \* history: a save_progress call of this run failed
    afterFail     \* history: a file was processed after a failed save

consVars == <<cpc, ci, already, cprogress, cdisk, writeFailed, afterFail>>

VARIABLES
    detailed_assessments,  \* quality_report["detailed_assessments"]
    reprocess_list,        \* reprocess_queue["reprocess_list"] while the loop runs
    reprocess_queue_file   \* reprocess_queue.json as run_quality_assessment saves it

qualVars == <<detailed_assessments, reprocess_list, reprocess_queue_file>>

VARIABLES
    pdf_classification  \* the classifier's result per document

classVars == <<pdf_classification>>

VARIABLES
    metrics,   \* what analyze_content measured of the PDF
    analysis   \* what it returns: the type, the confidence, the review flag

analyzerVars == <<metrics, analysis>>

VARIABLES
    assessment_results,  \* VisionQualityAssessor: results of assess_all_json_files
    vision_queue_file    \* vision_reprocess_queue.json

visionVars == <<assessment_results, vision_queue_file>>

VARIABLES
    output_file,   \* parsedData/AC_n.json as Type3Processor finds it
    verification   \* what verify_output_quality returns for it

verifyVars == <<output_file, verification>>

VARIABLES
    json_output,      \* parsedData/AC_n.json: none, or which run wrote it
    tracking_status,  \* the AC's status in tracking.json
    single            \* the call of process_single_pdf and what it did

singleVars == <<json_output, tracking_status, single>>

VARIABLES
    tool  \* which of the standalone tools the operator runs

\* The standalone tools that run after an extraction.
toolVars == <<visionVars, verifyVars, singleVars, tool>>

auxVars == <<mergeVars, fileVars, consVars, qualVars, classVars, analyzerVars,
             toolVars>>

\* What the actions of one component leave alone.
notMerge == <<regVars, batchVars, execVars, fileVars, consVars, qualVars, classVars,
              analyzerVars, toolVars>>
notFile == <<regVars, batchVars, execVars, mergeVars, consVars, qualVars, classVars,
              analyzerVars, toolVars>>
notCons == <<regVars, batchVars, execVars, mergeVars, fileVars, qualVars, classVars,
              analyzerVars, toolVars>>
notAnalyzer == <<regVars, batchVars, execVars, mergeVars, fileVars, consVars,
                 qualVars, classVars, toolVars>>
notVision == <<regVars, batchVars, execVars, mergeVars, fileVars, consVars,
               qualVars, classVars, analyzerVars, verifyVars, singleVars, tool>>
notVerify == <<regVars, batchVars, execVars, mergeVars, fileVars, consVars,
               qualVars, classVars, analyzerVars, visionVars, singleVars, tool>>
notSingle == <<regVars, batchVars, execVars, mergeVars, fileVars, consVars,
               qualVars, classVars, analyzerVars, visionVars, verifyVars, tool>>
notQual == <<regVars, batchVars, execVars, mergeVars, fileVars, consVars, classVars,
              analyzerVars, toolVars>>

vars == <<regVars, batchVars, execVars, auxVars>>

\* --------------------------------------------------------------- registry

\* One entry of progress["pdfs"] as initialize_pdf_tracking creates it.
NewDoc ==
    [status |-> "pending", quality_score |-> NoScore, manual_verified |-> FALSE,
     errors |-> <<>>, retry_count |-> 0]

InitRegistry == [d \in Docs |-> NewDoc]

AllCompleted(reg) == \A d \in Docs : reg[d].status = "completed"

\* get_next_pending_pdf: the first pending entry in dictionary order.
GetNextPendingPdf(reg) ==
    IF \E d \in Docs : reg[d].status = "pending"
    THEN CHOOSE d \in Docs :
            /\ reg[d].status = "pending"
            /\ \A e \in Docs : reg[e].status = "pending" => d <= e
    ELSE NoDoc

\* The retry decision of extract_pdf's except branch.
RetryStatus(count, maxr) ==
    IF count < maxr THEN "pending" ELSE "failed"

\* extract_pdf's except branch: log the error, count the retry, decide.
ExceptBranch(info, maxr) ==
    [info EXCEPT !.errors = Append(@, "exception"),
                 !.retry_count = @ + 1,
                 !.status = RetryStatus(info.retry_count + 1, maxr)]

\* extract_pdf's effect on pdf_info, by what the extractor and the validator
\* did: "raise" (the extractor, the import or the validator raised),
\* "valid" / "invalid" (validation_result["is_valid"]), and "valid_raise"
\* (is_valid, then save_extracted_data or the log line raised).
ExtractPdf(info, kind, q, maxr) ==
    CASE kind = "valid" ->
            [info EXCEPT !.status = "completed", !.quality_score = q]
      [] kind = "valid_raise" ->
            ExceptBranch([info EXCEPT !.status = "completed",
                                      !.quality_score = q], maxr)
      [] kind = "invalid" ->
            IF q < QualityThreshold
            THEN [info EXCEPT !.status = "manual_review", !.quality_score = q]
            ELSE [info EXCEPT !.status = "failed",
                              !.errors = Append(@, "validation")]
      [] OTHER -> ExceptBranch(info, maxr)

OutcomeKinds == {"valid", "valid_raise", "invalid", "raise"}

\* Whether extract_pdf with this outcome appends to errors.
AppendsError(kind, q) ==
    \/ kind \in {"valid_raise", "raise"}
    \/ kind = "invalid" /\ q >= QualityThreshold

\* --------------------------------------------- main_extractor.run_extraction

\* The process ends, normally ("stopped") or with an uncaught exception
\* ("raised"); what it held in memory is gone.
ProcessEnds(p, how) ==
    /\ pc' = [pc EXCEPT ![p] = how]
    /\ mem' = [mem EXCEPT ![p] = InitRegistry]
    /\ cur' = [cur EXCEPT ![p] = NoDoc]
    /\ batch_count' = [batch_count EXCEPT ![p] = 0]
    /\ unsaved' = [unsaved EXCEPT ![p] = {}]
    /\ allDone' = [allDone EXCEPT ![p] = FALSE]

Stopped(p) == ProcessEnds(p, "stopped")

\* Form20Extractor() and the head of run_extraction: load the registry and
\* pick the first document (start_from, or the first pending one).
Start(p, start_from) ==
    /\ pc[p] \in {"stopped", "raised"}
    /\ runs < MaxRuns
    /\ runs' = runs + 1
    /\ pc' = [pc EXCEPT ![p] = "loop"]
    /\ mem' = [mem EXCEPT ![p] = disk]
    /\ cur' = [cur EXCEPT ![p] =
                 IF start_from # NoDoc THEN start_from ELSE GetNextPendingPdf(disk)]
    /\ batch_count' = [batch_count EXCEPT ![p] = 0]
    /\ unsaved' = [unsaved EXCEPT ![p] = {}]
    /\ allDone' = [allDone EXCEPT ![p] = AllCompleted(disk)]
    /\ UNCHANGED <<disk, cfg, reviews, batchVars, execVars, auxVars>>

\* The loop body up to the extractor call: the document is being attempted.
ExtractBegin(p) ==
    /\ pc[p] = "loop"
    /\ cur[p] \in Docs
    /\ pc' = [pc EXCEPT ![p] = "extracting"]
    /\ UNCHANGED <<disk, cfg, mem, cur, batch_count, unsaved, allDone, runs, reviews, batchVars, execVars, auxVars>>

\* extract_pdf looks current_pdf up in progress["pdfs"] before its try block:
\* for an identifier the registry does not hold, the KeyError leaves
\* extract_pdf, run_extraction and main, and the process dies with it.
ExtractRaises(p) ==
    /\ pc[p] = "loop"
    /\ cur[p] = UnknownDoc
    /\ ProcessEnds(p, "raised")
    /\ UNCHANGED <<disk, cfg, runs, reviews, batchVars, execVars, auxVars>>

\* The tiers extract_pdf has an extractor for.
KnownTiers == {1, 2, 3}

\* What the classifier may have recorded for a document: the tier and
\* whether it asked for a manual review.  extract_pdf reads the tier.
Classifications == [tier : {1, 4}, manual_review_needed : BOOLEAN]

Unflagged == [tier |-> 1, manual_review_needed |-> FALSE]

\* The rest of the loop body: extract_pdf returns, the checkpoint is saved
\* every checkpoint_interval documents, the next pending document is picked.
ExtractEnd(p, kind, q) ==
    /\ pc[p] = "extracting"
    /\ pdf_classification[cur[p]].tier \notin KnownTiers => kind = "raise"
    /\ AppendsError(kind, q) => Len(mem[p][cur[p]].errors) < MaxErrors
    /\ LET reg == [mem[p] EXCEPT ![cur[p]] =
                     ExtractPdf(@, kind, q, cfg.max_retries)]
           save == batch_count[p] + 1 >= cfg.checkpoint_interval
       IN /\ mem' = [mem EXCEPT ![p] = reg]
          /\ disk' = IF save THEN reg ELSE disk
          /\ batch_count' = [batch_count EXCEPT ![p] =
                               IF save THEN 0 ELSE @ + 1]
          /\ unsaved' = [unsaved EXCEPT ![p] =
                           IF save THEN {} ELSE @ \cup {cur[p]}]
          /\ cur' = [cur EXCEPT ![p] = GetNextPendingPdf(reg)]
    /\ pc' = [pc EXCEPT ![p] = "loop"]
    /\ UNCHANGED <<cfg, allDone, runs, reviews, batchVars, execVars, auxVars>>

\* The loop has ended: the final save_progress, and the process exits.
Finish(p) ==
    /\ pc[p] = "loop"
    /\ cur[p] = NoDoc
    /\ disk' = mem[p]
    /\ Stopped(p)
    /\ UNCHANGED <<cfg, runs, reviews, batchVars, execVars, auxVars>>

\* The process is killed; what it held in memory is gone.
Crash(p) ==
    /\ pc[p] \in {"loop", "extracting"}
    /\ Stopped(p)
    /\ UNCHANGED <<disk, cfg, runs, reviews, batchVars, execVars, auxVars>>

\* ------------------------------------- manual_verifier / progress_manager
\* Each is a command that loads the registry file, changes it and writes it.

FrameReviewer ==
    /\ reviews < MaxReviews
    /\ reviews' = reviews + 1
    /\ UNCHANGED <<cfg, pc, mem, cur, batch_count, unsaved, allDone, runs, batchVars, execVars, auxVars>>

ApprovePdf(d) ==
    /\ disk' = [disk EXCEPT ![d].status = "completed",
                            ![d].manual_verified = TRUE]
    /\ FrameReviewer

RejectPdf(d) ==
    /\ Len(disk[d].errors) < MaxErrors
    /\ disk' = [disk EXCEPT ![d].status = "failed",
                            ![d].manual_verified = TRUE,
                            ![d].errors = Append(@, "rejection")]
    /\ FrameReviewer

ApproveBatch(min_confidence) ==
    /\ disk' = [d \in Docs |->
                  IF /\ disk[d].status = "manual_review"
                     /\ disk[d].quality_score >= min_confidence
                  THEN [disk[d] EXCEPT !.status = "completed",
                                       !.manual_verified = TRUE]
                  ELSE disk[d]]
    /\ FrameReviewer

ResetPdf(d) ==
    /\ disk' = [disk EXCEPT ![d].status = "pending",
                            ![d].retry_count = 0,
                            ![d].errors = <<>>,
                            ![d].quality_score = NoScore]
    /\ FrameReviewer

MarkComplete(d, q) ==
    /\ disk' = [disk EXCEPT ![d].status = "completed",
                            ![d].quality_score = q,
                            ![d].manual_verified = TRUE]
    /\ FrameReviewer

\* -------------------------------------------- batch_process_all_pdfs.py
\* total_processed, total_failed and total_skipped are incremented with every
\* append to their list and saved with it: they are the lists' lengths.

\* load_tracking's record when the tracking file does not exist.
DefaultTracking ==
    [current_ac |-> START_AC, completed |-> <<>>, failed |-> <<>>,
     skipped |-> <<>>, in_progress |-> NoDoc]

InList(x, list) == \E i \in 1..Len(list) : list[i] = x

\* process_single_ac's outcomes for one AC.
BatchOutcomes == {"skipped", "success", "failed", "exception"}

\* The tracking data after process_single_ac has recorded the outcome.
Recorded(t, n, outcome) ==
    CASE outcome = "skipped" ->
            [t EXCEPT !.skipped = Append(@, n), !.in_progress = NoDoc]
      [] outcome = "success" ->
            [t EXCEPT !.completed = Append(@, n), !.in_progress = NoDoc]
      [] OTHER ->
            [t EXCEPT !.failed = Append(@, n), !.in_progress = NoDoc]

BatchStopped ==
    /\ bpc' = "stopped"
    /\ tdata' = DefaultTracking
    /\ ac' = START_AC

\* main: load_tracking and the resume position.
BatchStart ==
    /\ bpc = "stopped"
    /\ bruns < MaxBatchRuns
    /\ bruns' = bruns + 1
    /\ tdata' = tfile
    /\ ac' = tfile.current_ac
    /\ bpc' = "loaded"
    /\ UNCHANGED <<tfile, regVars, execVars, auxVars>>

\* main's loop: an AC already in completed or skipped is passed over.
BatchPassOver ==
    /\ bpc \in {"loaded", "loop"}
    /\ ac <= MaxAC
    /\ InList(ac, tdata.completed) \/ InList(ac, tdata.skipped)
    /\ ac' = ac + 1
    /\ bpc' = "loop"
    /\ UNCHANGED <<tfile, tdata, bruns, regVars, execVars, auxVars>>

\* process_single_ac's head: the AC is marked in progress and saved.
BatchClaim ==
    /\ bpc \in {"loaded", "loop"}
    /\ ac <= MaxAC
    /\ ~ (InList(ac, tdata.completed) \/ InList(ac, tdata.skipped))
    /\ LET t == [tdata EXCEPT !.in_progress = ac, !.current_ac = ac]
       IN /\ tdata' = t
          /\ tfile' = t
    /\ bpc' = "processing"
    /\ UNCHANGED <<ac, bruns, regVars, execVars, auxVars>>

\* The rest of process_single_ac: the outcome is recorded and saved.
BatchRecord(outcome) ==
    /\ bpc = "processing"
    /\ Len(tdata.failed) < MaxListLen
    /\ LET t == Recorded(tdata, ac, outcome)
       IN /\ tdata' = t
          /\ tfile' = t
    /\ ac' = ac + 1
    /\ bpc' = "loop"
    /\ UNCHANGED <<bruns, regVars, execVars, auxVars>>

\* main's end: the final save_tracking.
BatchEnd ==
    /\ bpc \in {"loaded", "loop"}
    /\ ac > MaxAC
    /\ tfile' = tdata
    /\ BatchStopped
    /\ UNCHANGED <<bruns, regVars, execVars, auxVars>>

\* The process is killed or interrupted.
BatchCrash ==
    /\ bpc \in {"loaded", "loop", "processing"}
    /\ BatchStopped
    /\ UNCHANGED <<tfile, bruns, regVars, execVars, auxVars>>

\* ------------------------------------ gemini_vision_extractor_* : executor

Variants == {"optimized", "ultrafast"}

\* The call count above which wait_for_rate_limit sleeps.
Ceiling(v) == IF v = "optimized" THEN 50 ELSE 1800

\* min_delay + random.uniform(0, jitter), in tenths of a second: the two ends.
SleepDelays(v) == IF v = "optimized" THEN {5, 15} ELSE {1, 4}

\* The backoff before attempt a > 0, in tenths of a second, both ends:
\* 2 ** a + uniform(0, 1), and 1.5 ** a + uniform(0, 0.5) rounded down.
Pow2(a) == IF a <= 0 THEN 1 ELSE 2 ^ a

Backoffs(v, a) ==
    IF v = "optimized"
    THEN {10 * Pow2(a), 10 * Pow2(a) + 10}
    ELSE {(10 * 3 ^ a) \div Pow2(a), (10 * 3 ^ a) \div Pow2(a) + 5}

\* The timestamps of the last 60 seconds.
Recent(times, now) == SelectSeq(times, LAMBDA t : now - t < Window)

\* wait_for_rate_limit, under api_lock: what it leaves in api_call_times, and
\* the time at which it returns.
Sleeps(times, now, v) == Len(Recent(times, now)) > Ceiling(v)

TimesAfterWait(times, now) == Append(Recent(times, now), now)

ClockAfterWait(times, now, v, delay) ==
    IF Sleeps(times, now, v) THEN now + delay ELSE now

\* One call through the rate limiter, issued when wait_for_rate_limit returns.
RateCall(delay) ==
    /\ rpc = "idle"
    /\ Len(issued) <= Ceiling(variant) + MaxDelayed
    /\ Sleeps(api_call_times, clock, variant) => delayed < MaxDelayed
    /\ api_call_times' = TimesAfterWait(api_call_times, clock)
    /\ clock' = ClockAfterWait(api_call_times, clock, variant, delay)
    /\ issued' = Append(Recent(issued, clock'), clock')
    /\ delayed' = IF Sleeps(api_call_times, clock, variant)
                  THEN delayed + 1 ELSE delayed
    /\ UNCHANGED <<variant, rpc, attempt, max_retries, calls, result, outcomes,
                   regVars, batchVars, auxVars>>

\* A full window passes without a call.
WindowPasses ==
    /\ rpc = "idle"
    /\ clock < Window
    /\ clock' = clock + Window
    /\ UNCHANGED <<variant, api_call_times, issued, delayed, rpc, attempt,
                   max_retries, calls, result, outcomes, regVars, batchVars, auxVars>>

\* What an attempt can meet.  kind: "json" (a {...} match that parses),
\* "bare_json" (no {...} match, the whole text parses), "no_json" (no match
\* and the text does not parse), "bad_json" (a {...} match that json.loads
\* rejects: a JSONDecodeError, whose message names the line, column and
\* character of the error), "error" (generate_content raised) and
\* "load_error" (Image.open or compress_image raised, before any call).
\* msg: which of the substrings the except branch looks for are in str(e).
Signals == {"503", "overloaded", "deadline"}

Messages == {{}} \cup {{x} : x \in Signals}

AttemptOutcomes ==
    [kind : {"json", "bare_json", "no_json"}, msg : {{}}]
    \cup [kind : {"error"}, msg : Messages]
    \cup [kind : {"bad_json", "load_error"}, msg : {{}, {"503"}}]

\* The except branch's test of str(e).
IsTransientMutant(msg) == "503" \in msg

IsTransient(msg) == "503" \in msg \/ "overloaded" \in msg \/ "deadline" \in msg

\* What one pass through the loop body ends in: "data", "none" or "retry".
AttemptResult(o, a, mr) ==
    CASE o.kind \in {"json", "bare_json"} -> "data"
      [] o.kind = "no_json" -> "none"
      [] OTHER -> IF IsTransient(o.msg) /\ a < mr - 1 THEN "retry" ELSE "none"

\* One pass through the loop body of extract_form20_with_gemini_vision_retry.
RetryAttempt(o, backoff, delay) ==
    /\ rpc = "loop"
    /\ attempt < max_retries
    /\ LET start == IF attempt > 0 THEN clock + backoff ELSE clock
           called == o.kind # "load_error"
           res == AttemptResult(o, attempt, max_retries)
       IN /\ api_call_times' = IF called THEN TimesAfterWait(api_call_times, start)
                               ELSE api_call_times
          /\ clock' = IF called
                      THEN ClockAfterWait(api_call_times, start, variant, delay)
                      ELSE start
          /\ issued' = IF called THEN Append(Recent(issued, clock'), clock')
                       ELSE issued
          /\ calls' = IF called THEN calls + 1 ELSE calls
          /\ outcomes' = Append(outcomes, o)
          /\ rpc' = IF res = "retry" THEN "loop" ELSE "done"
          /\ attempt' = IF res = "retry" THEN attempt + 1 ELSE attempt
          /\ result' = IF res = "retry" THEN result ELSE res
    /\ UNCHANGED <<variant, delayed, max_retries, regVars, batchVars, auxVars>>

\* range(max_retries) is exhausted: the return after the loop.
RetryExhausted ==
    /\ rpc = "loop"
    /\ attempt >= max_retries
    /\ rpc' = "done"
    /\ result' = "none"
    /\ UNCHANGED <<variant, clock, api_call_times, issued, delayed, attempt,
                   max_retries, calls, outcomes, regVars, batchVars, auxVars>>

\* ------------------------- gemini_vision_extractor_* : merging the pages
\* process_type3_pdf_with_gemini_vision_parallel and
\* process_loksabha_pdf_parallel share this code line for line.

Pages == 1..NumPages

NoValue == 0
NoFile == [written |-> FALSE]

\* serial_no_wise_details of one page: lists of polling station serials.
RowLists == {<<>>, <<1>>, <<2>>, <<1, 2>>}

\* What a page's worker returns as page_data.  "none" is None, "empty" is
\* the dict {} (falsy), "list" is a non-empty JSON array (truthy, but without
\* .get), "dict" is a dict with rows and with the first-page fields
\* (Constituency Number, constituency_name, Total Number of Electors,
\* candidates), which the merge copies together.
PageDatas ==
    [kind : {"none", "empty", "list"}, rows : {<<>>}, first : {NoValue}]
    \cup [kind : {"dict"}, rows : RowLists, first : {NoValue, 7}]

\* if page_data:
Truthy(data) == data.kind \in {"list", "dict"}

\* The keys of page_results as the dict yields them: in insertion order.
KeysAsInserted(items) == [i \in 1..Len(items) |-> items[i][1]]

RECURSIVE SortedSeq(_)
SortedSeq(S) ==
    IF S = {} THEN <<>>
    ELSE LET m == CHOOSE x \in S : \A y \in S : x <= y
         IN <<m>> \o SortedSeq(S \ {m})

\* sorted(page_results.keys())
SortedKeys(items) == SortedSeq({items[i][1] : i \in 1..Len(items)})

\* page_results[page_num]
Lookup(items, page_num) ==
    LET i == CHOOSE j \in 1..Len(items) : items[j][1] = page_num
    IN items[i][2]

EmptyCombined == [first |-> NoValue, serial_no_wise_details |-> <<>>]

\* One pass of the merge loop's body over combined_data.
MergePage(combined, page_num, data) ==
    [first |-> IF page_num = 1 THEN data.first ELSE combined.first,
     serial_no_wise_details |-> combined.serial_no_wise_details \o data.rows]

RECURSIVE MergeLoop(_, _, _)
MergeLoop(combined, keys, items) ==
    IF keys = <<>> THEN combined
    ELSE MergeLoop(MergePage(combined, Head(keys), Lookup(items, Head(keys))),
                   Tail(keys), items)

\* The merge loop: for page_num in sorted(page_results.keys()).
MergeResults(items) == MergeLoop(EmptyCombined, SortedKeys(items), items)

\* page_data.get raises AttributeError for a list; the function's except
\* clause then returns False.
MergeRaises(items) == \E i \in 1..Len(items) : items[i][2].kind = "list"

\* The file the function writes when pages_processed > 0.
OutputFile(combined, processed) ==
    [written |-> TRUE, first |-> combined.first,
     serial_no_wise_details |-> combined.serial_no_wise_details,
     pages_processed |-> processed, pages_to_process |-> NumPages]

\* The sequential extractor's loop over pages_to_process, from page i on.
RECURSIVE SequentialLoop(_, _, _)
SequentialLoop(combined, i, fut) ==
    IF i > NumPages THEN combined
    ELSE SequentialLoop(IF Truthy(fut[i]) THEN MergePage(combined, i, fut[i])
                        ELSE combined, i + 1, fut)

SequentialMerge(fut) == SequentialLoop(EmptyCombined, 1, fut)

\* as_completed yields one more future, in whatever order they finish.
Collect(page_num) ==
    /\ mpc = "collecting"
    /\ page_num \in pending
    /\ pending' = pending \ {page_num}
    /\ IF Truthy(futures[page_num])
       THEN /\ page_results' = Append(page_results, <<page_num, futures[page_num]>>)
            /\ pages_processed' = pages_processed + 1
       ELSE UNCHANGED <<page_results, pages_processed>>
    /\ UNCHANGED <<futures, outfile, ret, mpc, notMerge>>

\* All futures are in: merge in page order, write the file, return.
Merge ==
    /\ mpc = "collecting"
    /\ pending = {}
    /\ mpc' = "done"
    /\ IF ~MergeRaises(page_results) /\ pages_processed > 0
       THEN /\ outfile' = OutputFile(MergeResults(page_results), pages_processed)
            /\ ret' = "true"
       ELSE /\ outfile' = outfile
            /\ ret' = "false"
    /\ UNCHANGED <<futures, pending, page_results, pages_processed, notMerge>>

\* ------------------------------------------------ writing the registry file
\* save_progress (main_extractor), save_tracking (batch_process_all_pdfs) and
\* the tail of reset_pdf (progress_manager) are the same two lines:
\*     with open(file, 'w') as f: json.dump(data, f, indent=2)

FileStatuses == {"pending", "completed", "failed"}
FileRegistries == [Docs -> FileStatuses]

\* json.dump's output for a registry, token by token.
Serialise(reg) == <<"{">> \o [d \in Docs |-> <<d, reg[d]>>] \o <<"}">>

\* json.load accepts the file.
Loads(content) == \E reg \in FileRegistries : content = Serialise(reg)

\* open(file, 'w'): the file is truncated in place before anything is written.
SaveOpen(reg) ==
    /\ wpc = "idle"
    /\ wreg' = reg
    /\ wprev' = regfile
    /\ regfile' = <<>>
    /\ wpc' = "writing"
    /\ UNCHANGED notFile

\* json.dump writes the next piece of the text.
SaveWrite ==
    /\ wpc = "writing"
    /\ Len(regfile) < Len(Serialise(wreg))
    /\ regfile' = Append(regfile, Serialise(wreg)[Len(regfile) + 1])
    /\ UNCHANGED <<wreg, wprev, wpc, notFile>>

\* The with block ends: the file is closed.
SaveClose ==
    /\ wpc = "writing"
    /\ regfile = Serialise(wreg)
    /\ wpc' = "idle"
    /\ UNCHANGED <<regfile, wreg, wprev, notFile>>

\* The process dies inside the with block.
SaveCrash ==
    /\ wpc = "writing"
    /\ wpc' = "crashed"
    /\ UNCHANGED <<regfile, wreg, wprev, notFile>>

\* The next process start: load_progress / load_tracking json.load the file.
LoadAfterCrash ==
    /\ wpc = "crashed"
    /\ wpc' = IF Loads(regfile) THEN "idle" ELSE "load_error"
    /\ UNCHANGED <<regfile, wreg, wprev, notFile>>

\* --------------------------------- consolidated_extractor.process_all_pdfs

Files == 1..NumFiles

\* save_progress: the write succeeds, or it raises and the except clause
\* logs the error and returns.
SavedProgress(ok) == IF ok THEN cprogress ELSE cdisk

\* The head of process_all_pdfs: total_pdfs, start_time, the first save.
ConsStart(ok) ==
    /\ cpc = "start"
    /\ cpc' = "loop"
    /\ cdisk' = SavedProgress(ok)
    /\ writeFailed' = (writeFailed \/ ~ok)
    /\ UNCHANGED <<ci, already, cprogress, afterFail, notCons>>

\* The loop body for a file the progress lists as processed: continue.
ConsSkip ==
    /\ cpc = "loop"
    /\ ci < NumFiles
    /\ ci + 1 \in already
    /\ ci' = ci + 1
    /\ UNCHANGED <<cpc, already, cprogress, cdisk, writeFailed, afterFail, notCons>>

\* The loop body for any other file: extract, count, and save every tenth
\* file.
ConsProcess(success, ok) ==
    /\ cpc = "loop"
    /\ ci < NumFiles
    /\ ci + 1 \notin already
    /\ LET progress ==
             [processed_pdfs |-> cprogress.processed_pdfs + 1,
              successful_extractions |->
                  cprogress.successful_extractions + (IF success THEN 1 ELSE 0)]
           saves == (ci + 1) % SaveEvery = 0
       IN /\ cprogress' = progress
          /\ cdisk' = IF saves /\ ok THEN progress ELSE cdisk
          /\ writeFailed' = (writeFailed \/ (saves /\ ~ok))
    /\ afterFail' = (afterFail \/ writeFailed)
    /\ ci' = ci + 1
    /\ UNCHANGED <<cpc, already, notCons>>

\* After the loop: the final save.
ConsFinish(ok) ==
    /\ cpc = "loop"
    /\ ci = NumFiles
    /\ cpc' = "done"
    /\ cdisk' = SavedProgress(ok)
    /\ writeFailed' = (writeFailed \/ ~ok)
    /\ UNCHANGED <<ci, already, cprogress, afterFail, notCons>>

\* ------------------------------------ quality_checker.assess_json_quality

\* What the checker reads of one parsedData file: whether it can be loaded,
\* and which of the fields it looks at are present and non-empty
\* (candidate_votes counts only inside a polling station).
JsonDatas ==
    [readable : {TRUE}, ac_number : BOOLEAN, total_electors : BOOLEAN,
     polling_stations : BOOLEAN, candidate_votes : BOOLEAN,
     candidates_list : BOOLEAN, elected_person : BOOLEAN]
    \cup {[readable |-> FALSE, ac_number |-> FALSE, total_electors |-> FALSE,
           polling_stations |-> FALSE, candidate_votes |-> FALSE,
           candidates_list |-> FALSE, elected_person |-> FALSE]}

Points(present, points) == IF present THEN points ELSE 0

QualityScore(data) ==
    Points(data.ac_number, 10) + Points(data.total_electors, 10)
    + Points(data.polling_stations, 30)
    + Points(data.polling_stations /\ data.candidate_votes, 20)
    + Points(data.candidates_list, 20) + Points(data.elected_person, 10)

NeedsReprocessing(data) ==
    \/ QualityScore(data) < 50
    \/ ~data.polling_stations
    \/ ~data.candidates_list

QualityCategory(score) ==
    IF score >= 80 THEN "Excellent"
    ELSE IF score >= 60 THEN "Good"
    ELSE IF score >= 40 THEN "Fair"
    ELSE "Poor"

AssessJsonQuality(data) ==
    IF data.readable
    THEN [quality_score |-> QualityScore(data),
          needs_reprocessing |-> NeedsReprocessing(data),
          quality_category |-> QualityCategory(QualityScore(data))]
    ELSE [quality_score |-> 0, needs_reprocessing |-> TRUE,
          quality_category |-> "Error"]

\* The issues list assess_json_quality builds next to the score.
Issue(found, text) == IF found THEN {text} ELSE {}

Issues(data) ==
    IF data.readable
    THEN Issue(~data.ac_number, "Missing constituency number")
         \cup Issue(~data.total_electors, "Missing total electors")
         \cup Issue(data.polling_stations /\ ~data.candidate_votes,
                    "Polling stations missing candidate votes")
         \cup Issue(~data.polling_stations, "No polling station details extracted")
         \cup Issue(~data.candidates_list, "No candidates list extracted")
         \cup Issue(~data.elected_person, "No elected person identified")
    ELSE {"File read error"}

\* A queue file that has not been written.
NoQueue == [saved |-> FALSE]

\* The entry the loop queues for file number n.
QueueEntry(n, data) ==
    [file_name |-> n,
     quality_score |-> AssessJsonQuality(data).quality_score,
     issues |-> Issues(data),
     priority |-> IF AssessJsonQuality(data).quality_score < 30
                  THEN "high" ELSE "medium"]

\* A queue that lists every assessed file.
AppendAlways(list, needed, entry) == Append(list, entry)

\* "if assessment[needs_reprocessing]: reprocess_list.append(...)".
AppendIfNeeded(list, needed, entry) == IF needed THEN Append(list, entry) ELSE list

\* One pass of run_quality_assessment's loop over the files.
AssessFile(data) ==
    /\ tool = "quality_checker"
    /\ reprocess_queue_file = NoQueue
    /\ Len(detailed_assessments) < NumJson
    /\ detailed_assessments' = Append(detailed_assessments, AssessJsonQuality(data))
    /\ reprocess_list' =
          AppendIfNeeded(reprocess_list, AssessJsonQuality(data).needs_reprocessing,
                         QueueEntry(Len(detailed_assessments) + 1, data))
    /\ UNCHANGED <<reprocess_queue_file, notQual>>

\* After the loop over the files found: the count is set and the queue saved.
SaveReports ==
    /\ tool = "quality_checker"
    /\ reprocess_queue_file = NoQueue
    /\ reprocess_queue_file' =
          [saved |-> TRUE,
           total_files_to_reprocess |-> Len(reprocess_list),
           reprocess_list |-> reprocess_list]
    /\ UNCHANGED <<detailed_assessments, reprocess_list, notQual>>

\* ------------------------------------------- vision_quality_assessor

\* What the assessor and the type 3 processor read of one output file: the
\* fields that pass their checks, and how many stations and candidates it has.
StationCounts == {0, 1, 10}

CandidateCounts == {0, 2, 5}

VisionDatas ==
    [readable : {TRUE}, ac_number : BOOLEAN, total_electors : BOOLEAN,
     polling_stations : StationCounts, candidates : CandidateCounts,
     elected_person : BOOLEAN, vision_method : BOOLEAN]
    \cup {[readable |-> FALSE, ac_number |-> FALSE, total_electors |-> FALSE,
           polling_stations |-> 0, candidates |-> 0,
           elected_person |-> FALSE, vision_method |-> FALSE]}

\* File sizes in bytes, on both sides of the two limits.
FileSizes == {50, 300, 700}

VisionScore(data) ==
    Points(data.ac_number, 10) + Points(data.total_electors, 15)
    + Points(data.polling_stations >= 1, 25) + Points(data.polling_stations >= 10, 5)
    + Points(data.candidates >= 2, 25) + Points(data.candidates >= 5, 5)
    + Points(data.elected_person, 15) + Points(data.vision_method, 5)

\* assess_data_quality: an unreadable file gives a dict without a score.
AssessDataQuality(data) ==
    IF data.readable
    THEN [quality_passed |-> VisionScore(data) >= 60,
          quality_score |-> VisionScore(data)]
    ELSE [quality_passed |-> FALSE, quality_score |-> NoScore]

\* quality_assessment.get("quality_score", 0)
ScoreOrZero(assessment) ==
    IF assessment.quality_score = NoScore THEN 0 ELSE assessment.quality_score

\* The parts of the reason string, joined by ", " in the code.
Reason(size_ok, quality_ok) ==
    (IF size_ok THEN <<>> ELSE <<"file size">>)
    \o (IF quality_ok THEN <<>> ELSE <<"quality score">>)

NoResults ==
    [size_failures |-> 0, quality_failures |-> 0, pending_files |-> <<>>,
     good_files |-> <<>>]

\* One pass of assess_all_json_files' loop, for file number n.
VisionAssessFile(size, data) ==
    /\ tool = "vision_quality_assessor"
    /\ vision_queue_file = NoQueue
    /\ Len(assessment_results.pending_files) + Len(assessment_results.good_files)
          < NumJson
    /\ LET n == Len(assessment_results.pending_files)
                + Len(assessment_results.good_files) + 1
           size_ok == size >= MinFileSize
           quality_ok == AssessDataQuality(data).quality_passed
           score == ScoreOrZero(AssessDataQuality(data))
       IN  assessment_results' =
             IF ~size_ok \/ ~quality_ok
             THEN [assessment_results EXCEPT
                     !.size_failures = @ + (IF size_ok THEN 0 ELSE 1),
                     !.quality_failures = @ + (IF quality_ok THEN 0 ELSE 1),
                     !.pending_files =
                        Append(@, [ac_number |-> n,
                                   reason |-> Reason(size_ok, quality_ok),
                                   file_size |-> size, quality_score |-> score])]
             ELSE [assessment_results EXCEPT
                     !.good_files =
                        Append(@, [ac_number |-> n, file_size |-> size,
                                   quality_score |-> score])]
    /\ UNCHANGED <<vision_queue_file, notVision>>

\* The sort key (priority != "high", quality_score), compared as tuples.
KeyLess(a, b) ==
    \/ a.priority = "high" /\ b.priority # "high"
    \/ (a.priority = "high") = (b.priority = "high")
       /\ a.quality_score < b.quality_score

RECURSIVE InsertByKey(_, _)
InsertByKey(sorted, e) ==
    IF sorted = <<>> THEN <<e>>
    ELSE IF KeyLess(e, Head(sorted)) THEN <<e>> \o sorted
    ELSE <<Head(sorted)>> \o InsertByKey(Tail(sorted), e)

\* list.sort(key=...): stable, ascending.
RECURSIVE SortQueue(_)
SortQueue(list) ==
    IF list = <<>> THEN <<>>
    ELSE InsertByKey(SortQueue(SubSeq(list, 1, Len(list) - 1)), list[Len(list)])

VisionQueueEntry(pending_file) ==
    [ac_number |-> pending_file.ac_number,
     reason |-> pending_file.reason,
     file_size |-> pending_file.file_size,
     quality_score |-> pending_file.quality_score,
     priority |-> IF pending_file.file_size < 100 THEN "high" ELSE "medium"]

\* create_reprocessing_queue, called by run_assessment after the loop.
CreateReprocessingQueue ==
    /\ tool = "vision_quality_assessor"
    /\ vision_queue_file = NoQueue
    /\ vision_queue_file' =
          [saved |-> TRUE,
           total_files_to_reprocess |-> Len(assessment_results.pending_files),
           reprocess_list |->
              SortQueue([i \in 1..Len(assessment_results.pending_files) |->
                           VisionQueueEntry(assessment_results.pending_files[i])])]
    /\ UNCHANGED <<assessment_results, notVision>>

\* ------------------------------- type3_processor.verify_output_quality

NoOutputFile ==
    [exists |-> FALSE, size |-> 0,
     data |-> [readable |-> FALSE, ac_number |-> FALSE, total_electors |-> FALSE,
               polling_stations |-> 0, candidates |-> 0,
               elected_person |-> FALSE, vision_method |-> FALSE]]

OutputFiles ==
    {NoOutputFile} \cup [exists : {TRUE}, size : FileSizes, data : VisionDatas]

Type3Score(data) ==
    Points(data.ac_number, 20) + Points(data.total_electors, 15)
    + Points(data.candidates >= 2, 25) + Points(data.candidates >= 5, 10)
    + Points(data.polling_stations >= 1, 20) + Points(data.polling_stations >= 10, 10)
    + Points(data.elected_person, 10)

NoVerification == [done |-> FALSE]

\* A missing, small or unreadable file gives a dict with a reason and no score.
VerifyOutputQuality ==
    /\ tool = "type3_processor"
    /\ verification = NoVerification
    /\ verification' =
          IF ~output_file.exists \/ output_file.size < MinFileSize
             \/ ~output_file.data.readable
          THEN [done |-> TRUE, valid |-> FALSE, quality_score |-> NoScore]
          ELSE [done |-> TRUE, valid |-> Type3Score(output_file.data) >= 50,
                quality_score |-> Type3Score(output_file.data)]
    /\ UNCHANGED <<output_file, notVerify>>

\* ------------------------------------- process_single.process_single_pdf

\* Form20Extractor.process as process.py runs it: whether it succeeds (exit
\* code 0) and the output file it leaves.  An output file that exists counts
\* as already processed.
Process(output, pdf_found, extracted) ==
    IF ~pdf_found THEN [ok |-> FALSE, output |-> output]
    ELSE IF output # "none" THEN [ok |-> TRUE, output |-> output]
    ELSE IF extracted THEN [ok |-> TRUE, output |-> "new"]
    ELSE [ok |-> FALSE, output |-> output]

NotCalled == [done |-> FALSE]

\* update_tracking_status: the status is written unless the update fails,
\* which the caller ignores.
UpdateTrackingStatus(old, status, written) == IF written THEN status ELSE old

\* One call of process_single_pdf: process.py is run with the AC number
\* alone, and its exit code decides the tracking status.
ProcessSinglePdf(force_override, script_exists, pdf_found, extracted, written) ==
    /\ tool = "process_single"
    /\ single = NotCalled
    /\ IF ~script_exists \/ (json_output # "none" /\ ~force_override)
       THEN /\ single' = [done |-> TRUE, force_override |-> force_override,
                          marked |-> "none", returned |-> FALSE]
            /\ UNCHANGED <<json_output, tracking_status>>
       ELSE LET r == Process(json_output, pdf_found, extracted)
                status == IF r.ok THEN "completed" ELSE "failed"
            IN /\ json_output' = r.output
               /\ tracking_status' =
                     UpdateTrackingStatus(tracking_status, status, written)
               /\ single' = [done |-> TRUE, force_override |-> force_override,
                             marked |-> IF written THEN status ELSE "none",
                             returned |-> r.ok]
    /\ UNCHANGED notSingle

\* ------------------------------- comprehensive_classifier.PDFAnalyzer
\* Scores and confidences are in tenths (0.6 is 6), ratios in percent.

TextLengths == {0, 100, 500, 2000, 3000}
NonAsciiRatios == {0, 5, 10, 15, 20}

\* The measurements the factors are computed from.  sample_text is taken
\* from a page with more than 100 characters, so a shorter document has an
\* empty sample: not garbled, no non-ASCII characters, no Devanagari.
MetricsSet ==
    {m \in [text_length : TextLengths, garbled_text : BOOLEAN,
            has_tables : BOOLEAN, non_ascii_ratio : NonAsciiRatios,
            has_devanagari : BOOLEAN, has_images : BOOLEAN] :
        /\ m.has_devanagari => m.non_ascii_ratio > 0
        /\ m.text_length <= 100 =>
              ~m.garbled_text /\ m.non_ascii_ratio = 0 /\ ~m.has_devanagari}

Clamp(x) == IF x < 0 THEN 0 ELSE IF x > 10 THEN 10 ELSE x

LikelyScanned(m) ==
    m.has_images /\ (m.text_length < 100 \/ m.garbled_text)

\* _calculate_extraction_confidence
ExtractionConfidence(m) ==
    Clamp((IF m.text_length > 2000 THEN 4
           ELSE IF m.text_length > 500 THEN 3
           ELSE IF m.text_length > 100 THEN 1 ELSE 0)
          + Points(~m.garbled_text, 3)
          + Points(m.has_tables, 2)
          - Points(LikelyScanned(m), 2))

\* _analyze_classification_factors
AnalyzeFactors(m) ==
    [readable_text |-> m.text_length > 500,
     minimal_text |-> m.text_length < 100,
     garbled_text |-> m.garbled_text,
     structured_content |-> m.has_tables,
     non_ascii_ratio |-> m.non_ascii_ratio,
     has_devanagari |-> m.has_devanagari,
     primarily_english |-> m.non_ascii_ratio < 10,
     has_images |-> m.has_images,
     likely_scanned |-> LikelyScanned(m),
     extraction_confidence |-> ExtractionConfidence(m)]

\* _classify_pdf: the three type scores, as the dict {1: .., 2: .., 3: ..}.
TypeScores(f) ==
    <<Points(f.readable_text, 4) + Points(f.primarily_english, 3)
        + Points(f.structured_content, 2)
        + Points(f.extraction_confidence > 7, 3),
      Points(f.has_devanagari, 6) + Points(f.non_ascii_ratio > 15, 4)
        + Points(f.readable_text /\ ~f.primarily_english, 3),
      Points(f.likely_scanned, 5) + Points(f.minimal_text, 3)
        + Points(f.garbled_text, 3)
        + Points(f.has_images /\ ~f.readable_text, 2)>>

\* max(scores, key=scores.get): the first key with the greatest score.
RecommendedType(scores) ==
    CHOOSE t \in 1..3 :
        /\ \A u \in 1..3 : scores[u] <= scores[t]
        /\ \A u \in 1..3 : scores[u] = scores[t] => t <= u

\* _needs_manual_review
NeedsManualReview(confidence, f) ==
    \/ confidence < 6
    \/ f.extraction_confidence < 5
    \/ (f.has_images /\ f.readable_text)

NoAnalysis == [done |-> FALSE]

\* analyze_content, from the factors on.
AnalyzeContent ==
    /\ ~analysis.done
    /\ LET f == AnalyzeFactors(metrics)
           scores == TypeScores(f)
           t == RecommendedType(scores)
       IN analysis' = [done |-> TRUE, recommended_type |-> t,
                       confidence |-> scores[t],
                       manual_review_needed |-> NeedsManualReview(scores[t], f)]
    /\ UNCHANGED <<metrics, notAnalyzer>>

\* ---------------------------------------------------------- specification

Configs == [max_retries : 0..MaxRetriesCfg, checkpoint_interval : 1..MaxInterval]

RegIdle ==
    /\ disk = InitRegistry
    /\ cfg \in Configs
    /\ mem = [p \in Procs |-> InitRegistry]
    /\ cur = [p \in Procs |-> NoDoc]
    /\ batch_count = [p \in Procs |-> 0]
    /\ unsaved = [p \in Procs |-> {}]
    /\ allDone = [p \in Procs |-> FALSE]
    /\ runs = 0
    /\ reviews = 0

BatchIdle ==
    /\ tfile = DefaultTracking
    /\ tdata = DefaultTracking
    /\ bpc = "stopped"
    /\ ac = START_AC
    /\ bruns = 0

ExecIdle ==
    /\ clock = 0
    /\ api_call_times = <<>>
    /\ issued = <<>>
    /\ delayed = 0
    /\ attempt = 0
    /\ calls = 0
    /\ result = "unset"
    /\ outcomes = <<>>

MergeIdle ==
    /\ futures = [n \in Pages |-> [kind |-> "none", rows |-> <<>>, first |-> NoValue]]
    /\ pending = {}
    /\ page_results = <<>>
    /\ pages_processed = 0
    /\ outfile = NoFile
    /\ ret = "unset"
    /\ mpc = "idle"

FileIdle ==
    /\ wreg = [d \in Docs |-> "pending"]
    /\ regfile = Serialise(wreg)
    /\ wprev = regfile
    /\ wpc = "idle"

ConsIdle ==
    /\ cpc = "idle"
    /\ ci = 0
    /\ already = {}
    /\ cprogress = [processed_pdfs |-> 0, successful_extractions |-> 0]
    /\ cdisk = cprogress
    /\ writeFailed = FALSE
    /\ afterFail = FALSE

QualIdle ==
    /\ detailed_assessments = <<>>
    /\ reprocess_list = <<>>
    /\ reprocess_queue_file = NoQueue

VisionIdle ==
    /\ assessment_results = NoResults
    /\ vision_queue_file = NoQueue

VerifyIdle ==
    /\ output_file = NoOutputFile
    /\ verification = NoVerification

SingleIdle ==
    /\ json_output = "none"
    /\ tracking_status = "pending"
    /\ single = NotCalled

ToolIdle == VisionIdle /\ VerifyIdle /\ SingleIdle /\ tool = "none"

ClassIdle == pdf_classification = [d \in Docs |-> Unflagged]

AnalyzerIdle ==
    /\ metrics = [text_length |-> 0, garbled_text |-> FALSE, has_tables |-> FALSE,
                  non_ascii_ratio |-> 0, has_devanagari |-> FALSE,
                  has_images |-> FALSE]
    /\ analysis = NoAnalysis

AuxIdle ==
    MergeIdle /\ FileIdle /\ ConsIdle /\ QualIdle /\ ClassIdle /\ AnalyzerIdle /\ ToolIdle

\* The components of the first three sections not running.
CoreIdle ==
    /\ RegIdle /\ cfg.max_retries = 0 /\ cfg.checkpoint_interval = 1
    /\ pc = [p \in Procs |-> "absent"]
    /\ BatchIdle
    /\ ExecIdle /\ variant = "optimized" /\ rpc = "idle" /\ max_retries = 0

\* One orchestrator, the reviewer and the progress manager.
Init ==
    /\ RegIdle
    /\ pc = [p \in Procs |-> IF p = 1 THEN "stopped" ELSE "absent"]
    /\ BatchIdle
    /\ ExecIdle /\ variant = "optimized" /\ rpc = "idle" /\ max_retries = 0
    /\ AuxIdle

\* Two orchestrators started against the same registry file, with one retry
\* and a checkpoint after every document.
InitTwo ==
    /\ RegIdle /\ cfg.max_retries = 1 /\ cfg.checkpoint_interval = 1
    /\ pc = [p \in Procs |-> "stopped"]
    /\ BatchIdle
    /\ ExecIdle /\ variant = "optimized" /\ rpc = "idle" /\ max_retries = 0
    /\ AuxIdle

\* The batch processor alone.
InitBatch ==
    /\ RegIdle /\ cfg.max_retries = 0 /\ cfg.checkpoint_interval = 1
    /\ pc = [p \in Procs |-> "absent"]
    /\ BatchIdle
    /\ ExecIdle /\ variant = "optimized" /\ rpc = "idle" /\ max_retries = 0
    /\ AuxIdle

\* The rate limiter alone, for both extractor modules.
InitRate ==
    /\ RegIdle /\ cfg.max_retries = 0 /\ cfg.checkpoint_interval = 1
    /\ pc = [p \in Procs |-> "absent"]
    /\ BatchIdle
    /\ ExecIdle /\ variant \in Variants /\ rpc = "idle" /\ max_retries = 0
    /\ AuxIdle

\* One call of extract_form20_with_gemini_vision_retry, for both modules and
\* every max_retries up to the bound.
InitRetry ==
    /\ RegIdle /\ cfg.max_retries = 0 /\ cfg.checkpoint_interval = 1
    /\ pc = [p \in Procs |-> "absent"]
    /\ BatchIdle
    /\ ExecIdle /\ variant \in Variants /\ rpc = "loop"
    /\ max_retries \in 0..MaxRetriesArg
    /\ AuxIdle

\* One document's pages, each worker's result fixed, every completion order.
InitMerge ==
    /\ CoreIdle
    /\ futures \in [Pages -> PageDatas]
    /\ pending = Pages
    /\ page_results = <<>>
    /\ pages_processed = 0
    /\ outfile = NoFile
    /\ ret = "unset"
    /\ mpc = "collecting"
    /\ FileIdle /\ ConsIdle /\ QualIdle /\ ClassIdle /\ AnalyzerIdle /\ ToolIdle

\* One writer of the registry file, which may die at any step of a write.
InitWrite ==
    /\ CoreIdle
    /\ MergeIdle /\ ConsIdle /\ QualIdle /\ ClassIdle /\ AnalyzerIdle /\ ToolIdle
    /\ FileIdle

\* One run of the consolidated extractor, on fresh or on loaded progress.
InitCons ==
    /\ CoreIdle
    /\ MergeIdle /\ FileIdle /\ QualIdle /\ ClassIdle /\ AnalyzerIdle /\ ToolIdle
    /\ cpc = "start"
    /\ ci = 0
    /\ \E k \in 0..MaxAlready :
          /\ already = 1..k
          /\ cprogress = [processed_pdfs |-> k, successful_extractions |-> k]
    /\ cdisk = cprogress
    /\ writeFailed = FALSE
    /\ afterFail = FALSE

\* One run of one of the tools over the parsedData files: the quality
\* checker, the vision assessor, the type 3 processor's verification of one
\* output file, or process_single on one AC.
Tools ==
    {"quality_checker", "vision_quality_assessor", "type3_processor",
     "process_single"}

TrackingStatuses == {"pending", "completed", "failed"}

InitQuality ==
    /\ CoreIdle
    /\ MergeIdle /\ FileIdle /\ ConsIdle /\ QualIdle /\ ClassIdle /\ AnalyzerIdle
    /\ VisionIdle
    /\ tool \in Tools
    /\ output_file \in IF tool = "type3_processor" THEN OutputFiles
                        ELSE {NoOutputFile}
    /\ verification = NoVerification
    /\ json_output \in IF tool = "process_single" THEN {"none", "old"}
                        ELSE {"none"}
    /\ tracking_status \in IF tool = "process_single" THEN TrackingStatuses
                            ELSE {"pending"}
    /\ single = NotCalled

\* One orchestrator alone, over every classification of the documents.
InitClassified ==
    /\ RegIdle
    /\ pc = [p \in Procs |-> IF p = 1 THEN "stopped" ELSE "absent"]
    /\ BatchIdle
    /\ ExecIdle /\ variant = "optimized" /\ rpc = "idle" /\ max_retries = 0
    /\ MergeIdle /\ FileIdle /\ ConsIdle /\ QualIdle /\ AnalyzerIdle /\ ToolIdle
    /\ pdf_classification \in [Docs -> Classifications]

\* One PDF analysed, over every combination of measurements.
InitAnalyzer ==
    /\ CoreIdle
    /\ MergeIdle /\ FileIdle /\ ConsIdle /\ QualIdle /\ ClassIdle /\ ToolIdle
    /\ metrics \in MetricsSet
    /\ analysis = NoAnalysis

Orchestrator ==
    \/ \E p \in Procs, s \in Docs \cup {NoDoc, UnknownDoc} : Start(p, s)
    \/ \E p \in Procs : ExtractBegin(p)
    \/ \E p \in Procs : ExtractRaises(p)
    \/ \E p \in Procs, kind \in OutcomeKinds, q \in Scores : ExtractEnd(p, kind, q)
    \/ \E p \in Procs : Finish(p)
    \/ \E p \in Procs : Crash(p)

Reviewer ==
    \/ \E d \in Docs : ApprovePdf(d)
    \/ \E d \in Docs : RejectPdf(d)
    \/ ApproveBatch(DefaultMinConfidence)
    \/ \E d \in Docs : ResetPdf(d)
    \/ \E d \in Docs, q \in Scores : MarkComplete(d, q)

Next == Orchestrator \/ Reviewer

NextBatch ==
    \/ BatchStart
    \/ BatchPassOver
    \/ BatchClaim
    \/ \E o \in BatchOutcomes : BatchRecord(o)
    \/ BatchEnd
    \/ BatchCrash

NextRate ==
    \/ \E d \in SleepDelays(variant) : RateCall(d)
    \/ WindowPasses

NextRetry ==
    \/ \E o \in AttemptOutcomes, b \in Backoffs(variant, attempt),
          d \in SleepDelays(variant) : RetryAttempt(o, b, d)
    \/ RetryExhausted

NextMerge ==
    \/ \E n \in Pages : Collect(n)
    \/ Merge

NextWrite ==
    \/ \E reg \in FileRegistries : SaveOpen(reg)
    \/ SaveWrite
    \/ SaveClose
    \/ SaveCrash
    \/ LoadAfterCrash

NextCons ==
    \/ \E ok \in BOOLEAN : ConsStart(ok)
    \/ ConsSkip
    \/ \E success, ok \in BOOLEAN : ConsProcess(success, ok)
    \/ \E ok \in BOOLEAN : ConsFinish(ok)

NextQuality ==
    \/ \E data \in JsonDatas : AssessFile(data)
    \/ SaveReports
    \/ \E size \in FileSizes, data \in VisionDatas : VisionAssessFile(size, data)
    \/ CreateReprocessingQueue
    \/ VerifyOutputQuality
    \/ \E force_override, script_exists, pdf_found, extracted, written \in BOOLEAN :
          ProcessSinglePdf(force_override, script_exists, pdf_found, extracted,
                           written)

Spec == Init /\ [][Next]_vars

SpecTwo == InitTwo /\ [][Orchestrator]_vars

SpecClassified == InitClassified /\ [][Orchestrator]_vars

SpecBatch == InitBatch /\ [][NextBatch]_vars

SpecRate == InitRate /\ [][NextRate]_vars

SpecRetry == InitRetry /\ [][NextRetry]_vars

SpecMerge == InitMerge /\ [][NextMerge]_vars

SpecWrite == InitWrite /\ [][NextWrite]_vars

SpecCons == InitCons /\ [][NextCons]_vars

SpecQuality == InitQuality /\ [][NextQuality]_vars

SpecAnalyzer == InitAnalyzer /\ [][AnalyzeContent]_vars

\* ------------------------------------------------------------------ claims

CompletedIsBacked(reg) ==
    \A d \in Docs :
        reg[d].status = "completed" =>
            reg[d].quality_score >= QualityThreshold \/ reg[d].manual_verified

Running(p) == pc[p] \in {"loop", "extracting"}

\* C1: in every registry state, on file and in an orchestrator's memory, a
\* completed document has quality_score >= quality_threshold or is manually
\* verified.  extract_pdf completes a document on is_valid alone.
C1_CompletedHasQualityOrVerified ==
    /\ CompletedIsBacked(disk)
    /\ \A p \in Procs : Running(p) => CompletedIsBacked(mem[p])

\* C2: no operation leaves a document of the registry file with a smaller
\* retry_count than it had.  reset_pdf sets it to 0.
C2_RetryCountNeverDecreases ==
    [][\A d \in Docs : disk'[d].retry_count >= disk[d].retry_count]_vars

IsPrefix(s, t) == Len(s) <= Len(t) /\ SubSeq(t, 1, Len(s)) = s

\* C3: after every operation a document's previous errors list is a prefix
\* of its new one.  reset_pdf empties the list.
C3_ErrorsAppendOnly ==
    [][\A d \in Docs : IsPrefix(disk[d].errors, disk'[d].errors)]_vars

\* C4: no two orchestrator processes are attempting the same document at the
\* same time.  Both load the same file and pick the same first pending entry.
C4_ClaimIsExclusive ==
    \A p \in Procs, r \in Procs :
        (p # r /\ pc[p] = "extracting" /\ pc[r] = "extracting") => cur[p] # cur[r]

\* C5: when the orchestrator claims a document, every outcome it recorded
\* before is on file.  save_progress runs only every checkpoint_interval
\* documents.
C5_PersistedBeforeNextClaim ==
    \A p \in Procs : pc[p] = "extracting" => unsaved[p] = {}

\* C6: the run restarted after a crash starts from a tracking record that
\* holds the completed ACs on file and no in-progress claim.  load_tracking
\* returns the file as the crash left it, in_progress included.
C6_NoClaimSurvivesRestart ==
    bpc = "loaded" =>
        /\ tdata.completed = tfile.completed
        /\ tdata.in_progress = NoDoc

\* C7: a run that loaded a registry with every document completed makes no
\* extraction call and leaves every document completed.  run_extraction with
\* start_from extracts that document whatever its status.
C7_IdempotentOnCompleted ==
    \A p \in Procs :
        allDone[p] => pc[p] # "extracting" /\ AllCompleted(mem[p])

\* C8: the calls issued within the 60 seconds up to the latest call never
\* number more than the ceiling.  wait_for_rate_limit sleeps once, for at
\* most min_delay plus the jitter, and lets the call through.
C8_WindowNeverExceedsCeiling ==
    Len(issued) <= Ceiling(variant)

\* A backend call that failed with one of the transient signals in its message.
IsTransientError(o) == o.kind = "error" /\ o.msg \cap Signals # {}

AllTransientErrors(os) == \A i \in 1..Len(os) : IsTransientError(os[i])

\* C9: the function makes at most max_retries backend calls; when every call
\* so far failed transiently it goes on until max_retries calls are made and
\* then returns None; when k < max_retries transient failures are followed by
\* a response that parses, it returns the data.
C9_BackoffRetry ==
    /\ calls <= max_retries
    /\ rpc = "done" =>
        /\ result \in {"data", "none"}
        /\ AllTransientErrors(outcomes) =>
              /\ Len(outcomes) = max_retries
              /\ calls = max_retries
              /\ result = "none"
        /\ ( /\ outcomes # <<>>
             /\ AllTransientErrors(SubSeq(outcomes, 1, Len(outcomes) - 1))
             /\ outcomes[Len(outcomes)].kind \in {"json", "bare_json"} ) =>
              /\ result = "data"
              /\ calls = Len(outcomes)

\* C9 witness: two transient failures, then a response that parses.
C9_Witness ==
    /\ rpc = "done"
    /\ result = "data"
    /\ Len(outcomes) = 3
    /\ IsTransientError(outcomes[1])
    /\ IsTransientError(outcomes[2])

\* A failure that is not transient: an exception with none of the three
\* signals in its message, or a response with no JSON that parses.
IsPermanentFailure(o) ==
    \/ o.kind = "error" /\ o.msg = {}
    \/ o.kind \in {"no_json", "bad_json"}

\* C10: an attempt that meets a failure that is not transient is the last
\* one: the function has returned None.  A JSONDecodeError whose position
\* holds the digits 503 is taken for a 503 and retried.
C10_PermanentFailureEndsThePage ==
    \A i \in 1..Len(outcomes) :
        IsPermanentFailure(outcomes[i]) =>
            i = Len(outcomes) /\ rpc = "done" /\ result = "none"

\* The rows of the pages that returned data, page 1 first.
RECURSIVE ConcatAscending(_, _)
ConcatAscending(fut, i) ==
    IF i > NumPages THEN <<>>
    ELSE (IF fut[i].kind = "dict" THEN fut[i].rows ELSE <<>>)
         \o ConcatAscending(fut, i + 1)

\* C11: for every completion order of the worker futures, the merged
\* serial_no_wise_details is the concatenation of the successful pages' rows
\* in ascending page index order, which is also what the sequential extractor
\* collects from the same page results.
C11_MergeInPageOrder ==
    (mpc = "done" /\ ret = "true") =>
        /\ outfile.serial_no_wise_details = ConcatAscending(futures, 1)
        /\ outfile.serial_no_wise_details =
              SequentialMerge(futures).serial_no_wise_details

\* A later page with rows completed before an earlier page with other rows.
C11_Witness ==
    /\ mpc = "done" /\ ret = "true"
    /\ \E i, j \in 1..Len(page_results) :
          /\ i < j
          /\ page_results[i][1] > page_results[j][1]
          /\ page_results[i][2].rows # <<>>
          /\ page_results[j][2].rows # <<>>
          /\ page_results[i][2].rows # page_results[j][2].rows

\* The pages missing from the result: those whose worker returned nothing
\* the collector keeps.
FailedPages(fut) == {n \in Pages : fut[n].kind \in {"none", "empty"}}

\* What the document function hands its caller for these page results: the
\* return value and the file.
ResultOf(fut) ==
    LET items == SelectSeq([n \in Pages |-> <<n, fut[n]>>],
                           LAMBDA it : Truthy(it[2]))
    IN IF ~MergeRaises(items) /\ Len(items) > 0
       THEN <<"true", OutputFile(MergeResults(items), Len(items))>>
       ELSE <<"false", NoFile>>

\* C12: when some but not all pages fail, what the executor returns tells
\* the caller which pages failed: no other set of failed pages yields the
\* same return value and the same file.
C12_FailedPagesReported ==
    (mpc = "done" /\ ret = "true" /\ FailedPages(futures) # {}) =>
        \A other \in [Pages -> PageDatas] :
            ResultOf(other) = <<ret, outfile>> =>
                FailedPages(other) = FailedPages(futures)

\* C13: no exception escapes run_extraction: whatever goes wrong with a
\* document, including a start_from identifier the registry does not hold,
\* ends as a status of that document and the loop goes on.
C13_NoExceptionEscapes == \A p \in Procs : pc[p] # "raised"

\* C14: registry writes are atomic with respect to a crash: after the writer
\* died at any step of a write, the file holds the complete previous registry
\* or the complete new one, never an empty or half-written text.
C14_WriteIsAtomic ==
    wpc = "crashed" => (regfile = wprev \/ regfile = Serialise(wreg))

\* C15: a failed registry write is batch-fatal: once a write of the tracking
\* state has failed, the run halts and processes no further document.
C15_WriteFailureHaltsRun == ~afterFail

\* C16: the verdict is a function of the score and the cut points only: two
\* assessed results with the same score get the same needs-reprocessing
\* decision.
C16_VerdictFromScoreOnly ==
    \A i, j \in 1..Len(detailed_assessments) :
        detailed_assessments[i].quality_score = detailed_assessments[j].quality_score
            => detailed_assessments[i].needs_reprocessing
                  = detailed_assessments[j].needs_reprocessing

\* C17: completed is terminal: once the registry records a document as
\* completed, no operation of any component changes its status again.
C17_CompletedIsTerminal ==
    [][\A d \in Docs : disk[d].status = "completed"
                          => disk'[d].status = "completed"]_vars

\* C18: in every reachable state every document's retry_count is at most
\* the configured max_retries, for every configured value including 0 and 1.
C18_RetryCountBounded ==
    /\ \A d \in Docs : disk[d].retry_count <= cfg.max_retries
    /\ \A p \in Procs, d \in Docs : mem[p][d].retry_count <= cfg.max_retries

\* C19: a document the classifier flagged for manual review is never
\* auto-completed by the orchestrator.
C19_FlaggedNeverAutoCompleted ==
    \A p \in Procs, d \in Docs :
        pdf_classification[d].manual_review_needed
            => mem[p][d].status # "completed"

\* The greatest score among the types other than t.
RunnerUp(scores, t) ==
    CHOOSE x \in {scores[u] : u \in (1..3) \ {t}} :
        \A u \in (1..3) \ {t} : scores[u] <= x

\* C20: the classifier returns the arg-max type with that type's score as
\* confidence, and sets the manual-review flag whenever the top two type
\* scores are tied or within 0.1 (one tenth) of each other.
C20_TieOrLowMarginFlagged ==
    analysis.done =>
        LET scores == TypeScores(AnalyzeFactors(metrics))
            t == analysis.recommended_type
        IN /\ \A u \in 1..3 : scores[u] <= scores[t]
           /\ analysis.confidence = scores[t]
           /\ (scores[t] - RunnerUp(scores, t) <= 1
                  => analysis.manual_review_needed)

\* C21: a document with no extractable text and no embedded images is
\* classified into the scanned/OCR type 3, with low confidence.
C21_NoTextNoImagesIsType3 ==
    (analysis.done /\ metrics.text_length = 0 /\ ~metrics.has_images) =>
        /\ analysis.recommended_type = 3
        /\ analysis.confidence < 6

\* C22: the confidence _classify_pdf returns, the winning type's score, is
\* at most 1 (ten tenths) for every reachable combination of factors.
C22_ConfidenceAtMostOne == analysis.done => analysis.confidence <= 10

\* C23: every quality score stays within its stated range of 0..100 points,
\* bonuses included, for each of the three scorers.
C23_ScoresWithinRange ==
    /\ \A i \in 1..Len(detailed_assessments) :
          detailed_assessments[i].quality_score \in 0..100
    /\ \A i \in 1..Len(assessment_results.pending_files) :
          assessment_results.pending_files[i].quality_score \in 0..100
    /\ \A i \in 1..Len(assessment_results.good_files) :
          assessment_results.good_files[i].quality_score \in 0..100
    /\ (verification.done /\ verification.quality_score # NoScore) =>
          verification.quality_score \in 0..100

EntriesFor(list, n, field) ==
    Cardinality({i \in 1..Len(list) : list[i][field] = n})

\* The files the vision assessor has assessed, in either list.
VisionAssessed ==
    {assessment_results.pending_files[i].ac_number :
        i \in 1..Len(assessment_results.pending_files)}
    \cup {assessment_results.good_files[i].ac_number :
        i \in 1..Len(assessment_results.good_files)}

VisionNeeds(rec) == rec.file_size < MinFileSize \/ rec.quality_score < 60

\* C27: after an assessment run the queue has exactly one entry for each
\* assessed file that needs reprocessing and none for any other file, the
\* count equals the number of entries, and every entry carries a non-empty
\* reason or issues list; for the quality checker and the vision assessor.
C27_QueueListsWhatNeedsReprocessing ==
    /\ reprocess_queue_file.saved =>
          LET list == reprocess_queue_file.reprocess_list IN
          /\ reprocess_queue_file.total_files_to_reprocess = Len(list)
          /\ \A n \in 1..Len(detailed_assessments) :
                EntriesFor(list, n, "file_name") =
                   IF detailed_assessments[n].needs_reprocessing THEN 1 ELSE 0
          /\ \A i \in 1..Len(list) :
                /\ list[i].file_name \in 1..Len(detailed_assessments)
                /\ list[i].issues # {}
    /\ vision_queue_file.saved =>
          LET list == vision_queue_file.reprocess_list
              pend == assessment_results.pending_files
              good == assessment_results.good_files
          IN
          /\ vision_queue_file.total_files_to_reprocess = Len(list)
          /\ Cardinality(VisionAssessed) = Len(pend) + Len(good)
          /\ \A i \in 1..Len(pend) :
                VisionNeeds(pend[i]) /\ EntriesFor(list, pend[i].ac_number, "ac_number") = 1
          /\ \A i \in 1..Len(good) :
                ~VisionNeeds(good[i]) /\ EntriesFor(list, good[i].ac_number, "ac_number") = 0
          /\ \A i \in 1..Len(list) :
                /\ list[i].ac_number \in VisionAssessed
                /\ list[i].reason # <<>>

\* A saved queue of the quality checker with one file queued and one not.
C27_Witness ==
    /\ reprocess_queue_file.saved
    /\ Len(detailed_assessments) = 2
    /\ Len(reprocess_queue_file.reprocess_list) = 1

\* C24: an AC whose PDF file is not found ends as failed, not as skipped.
\* process_single_ac returns "skipped" for a missing PDF and for nothing
\* else, so no AC may ever be recorded in the skipped list.
C24_MissingFileEndsFailed ==
    \A n \in START_AC..MaxAC : ~InList(n, tfile.skipped)

\* C25: no registry update is lost.  A save of the orchestrator changes on
\* file only the records of the documents it has processed since its last
\* save, so what a reviewer or progress-manager command wrote for any other
\* document in the meantime is still there after the save.
C25_NoRegistryUpdateLost ==
    [][reviews' = reviews =>
          \A d \in Docs :
              disk'[d] # disk[d] => \E p \in Procs : d \in unsaved[p] \cup {cur[p]}]_vars

\* C26: manual_verified is set only by a reviewer action: a document's flag in
\* the registry changes only in a step of approve_pdf, reject_pdf,
\* approve_batch or mark_complete, never in a step of the orchestrator.
C26_ManualVerifiedOnlyByReviewer ==
    [][\A d \in Docs :
          disk'[d].manual_verified # disk[d].manual_verified =>
              reviews' = reviews + 1]_vars

RetryBudget == IF cfg.max_retries < 1 THEN 1 ELSE cfg.max_retries

\* C28: run_extraction ends with no document pending, and no document is
\* attempted more than max(1, max_retries) times: every attempt that raises
\* is counted in retry_count, which therefore never exceeds that number, and
\* the loop is left only when no document is pending.
C28_RunEndsWithinRetryBudget ==
    \A p \in Procs :
        /\ (pc[p] = "loop" /\ cur[p] = NoDoc) =>
              \A d \in Docs : mem[p][d].status # "pending"
        /\ pc[p] \in {"loop", "extracting"} =>
              \A d \in Docs : mem[p][d].retry_count <= RetryBudget

Occurrences(n, list) == Cardinality({i \in 1..Len(list) : list[i] = n})

\* C29: in every saved state of the batch tracking file an AC is recorded in
\* at most one of the completed, failed and skipped lists and at most once,
\* so the three totals together never exceed the number of ACs.
C29_ListsDisjointAndDuplicateFree ==
    /\ \A n \in START_AC..MaxAC :
          Occurrences(n, tfile.completed \o tfile.failed \o tfile.skipped) <= 1
    /\ Len(tfile.completed) + Len(tfile.failed) + Len(tfile.skipped)
          <= MaxAC - START_AC + 1

\* C30: process_single_pdf called with force_override on an AC whose output
\* exists re-runs the extraction and replaces the output: a status of
\* completed set by the call refers to output written by the call.
C30_ForceOverrideReplacesOutput ==
    (single.done /\ single.force_override /\ single.marked = "completed") =>
        json_output = "new"

====
